---- MODULE Spec2Model ----
(***************************************************************************)
(* The in-memory call tracer of agent-zero: InMemoryTracer                 *)
(* (src/agent/tracer.py) and the trace_operation decorator                 *)
(* (src/agent/rag_pipeline.py), run by the threads of the web server.      *)
(*                                                                         *)
(* Python values are modelled as follows.                                  *)
(*   None            the string "None"                                     *)
(*   a str           [text |-> id, len |-> n]: the first n characters of   *)
(*                   the text called id, so that s[:k] keeps the text and  *)
(*                   cuts the length                                       *)
(*   a list          a sequence                                            *)
(*   a dict          a record / a function from keys                       *)
(*   a float         an integer (seconds of the clock, milliseconds of a   *)
(*                   duration); a quotient a/b is the fraction <<a, b>>    *)
(*                   in lowest terms                                       *)
(*                                                                         *)
(* tracer.py uses threading, datetime, json and defaultdict without        *)
(* importing them; the model takes them to be the standard library's.      *)
(***************************************************************************)
EXTENDS Integers, Sequences, FiniteSets, TLC

VARIABLES
    traces,      \* InMemoryTracer.traces
    max_traces,  \* InMemoryTracer.max_traces
    lock,        \* InMemoryTracer.lock: its holder, or Free
    clock,       \* the wall clock read by time.time() and datetime.utcnow()
    file,        \* the file export_json writes
    pc,          \* per thread: where it is in the call it makes
    frame,       \* per thread: the arguments and locals of that call, and
                 \* (history) outcome: what the wrapped function did,
                 \* added: the records the call has appended
    ret,         \* per thread: what the finished call gave to its caller
    hist,        \* history: every record appended since construction or clear
    calls        \* history: add_trace and wrapper calls begun so far

vars == <<traces, max_traces, lock, clock, file, pc, frame, ret, hist, calls>>

----------------------------------------------------------------------------
(* Bounds of the model *)

\* largest max_traces a tracer is constructed with
MaxCap == 2
\* direct add_trace calls made on one tracer
MaxAdds == 3
\* calls of wrapped functions
MaxWrapped == 2
\* last tick of the wall clock
MaxClock == 1
\* largest limit passed to get_traces
MaxLimit == 2

\* requests to /add and /query served before the dashboard is used
MaxRequests == 101

(* Program constants *)

\* InMemoryTracer(max_traces = 10000)
DefaultMaxTraces == 10000
\* get_traces(operation = None, limit = 100), in api.py and rag_pipeline.py
DefaultLimit == 100

\* str(args)[:200] and str(kwargs)[:200]
InputCut == 200
\* str(result)[:500]
ResultCut == 500

Threads == {"t1", "t2"}
Free == "free"
None == "None"

Min(a, b) == IF a < b THEN a ELSE b

----------------------------------------------------------------------------
(* Python sequence slicing *)

\* s[i:] for an index i of any sign: a negative i counts from the end,
\* and -0 is 0
SliceFrom(s, i) ==
    LET n == Len(s)
        lo == IF i < 0 THEN (IF n + i < 0 THEN 0 ELSE n + i)
              ELSE (IF i > n THEN n ELSE i)
    IN  SubSeq(s, lo + 1, n)

\* s[-k:]
LastSlice(s, k) == SliceFrom(s, 0 - k)

\* s[:k] of a str
StrCut(s, k) == [text |-> s.text, len |-> Min(s.len, k)]

----------------------------------------------------------------------------
(* Values *)

\* operation names: the instrumented call sites of rag_pipeline.py
OpNames == {"add_document", "query_rag"}

\* the operation argument of get_traces: absent, empty, or a name
Filters == {None, ""} \cup OpNames

\* the limit argument of get_traces
Limits == 0 .. MaxLimit

\* the max_traces argument of the constructor
Capacities == 0 .. MaxCap

\* the calls of wrapped functions: the operation name of the call site and
\* the str() of the arguments, a short one and one longer than the cut
CallSites ==
    { [name |-> "add_document", args |-> [text |-> "text", len |-> 12]],
      [name |-> "query_rag",    args |-> [text |-> "question", len |-> InputCut + 50]] }
KwargStr == [text |-> "kwargs", len |-> 2]

\* values a wrapped function returns: truth is what `if result` does with the
\* value ("raises": bool() raises ValueError, as for a numpy array or a
\* DataFrame), str its str()
Values ==
    { [id |-> "dict",  truth |-> "true",   str |-> [text |-> "dict", len |-> 40]],
      [id |-> "zero",  truth |-> "false",  str |-> [text |-> "zero", len |-> 1]],
      [id |-> "text",  truth |-> "true",   str |-> [text |-> "text", len |-> ResultCut + 100]],
      [id |-> "array", truth |-> "raises", str |-> [text |-> "array", len |-> 20]] }

\* exceptions a wrapped function raises
Raised ==
    { [type |-> "TypeError",         msg |-> "unsupported operand"],
      [type |-> "KeyboardInterrupt", msg |-> ""] }

\* the exception bool(v) raises for a value whose truth is "raises"
TruthError == [type |-> "ValueError", msg |-> "truth value is ambiguous"]

\* the exception open() and write() raise
IOError == [type |-> "OSError", msg |-> "cannot write"]

\* isinstance(e, Exception): KeyboardInterrupt, SystemExit and GeneratorExit
\* derive from BaseException only
IsException(e) == e.type \notin {"KeyboardInterrupt", "SystemExit", "GeneratorExit"}

NoFrame == [method |-> "none"]
NoRet == [kind |-> "none"]
Returned(v) == [kind |-> "value", value |-> v]
Raises(e) == [kind |-> "raise", exc |-> e]

NoFile == [state |-> "absent", data |-> <<>>]

\* the filepath argument of export: the default, in the working directory,
\* and a path in a directory where no file can be created
Paths == {"traces.json", "/proc/traces.json"}
Writable(path) == path = "traces.json"

----------------------------------------------------------------------------
(* InMemoryTracer: what each method computes *)

\* the dict add_trace builds, stamped with the clock read under the lock
Trace(now, operation, input_data, output_data, duration_ms, status, error) ==
    [ timestamp   |-> now,
      operation   |-> operation,
      input       |-> input_data,
      output      |-> output_data,
      duration_ms |-> duration_ms,
      status      |-> status,
      error       |-> error ]

\* Trimmed, keeping the oldest records
TrimmedOldest(tr, cap) == IF Len(tr) > cap THEN SubSeq(tr, 1, cap) ELSE tr

\* if len(self.traces) > self.max_traces: self.traces = self.traces[-self.max_traces:]
Trimmed(tr, cap) == IF Len(tr) > cap THEN LastSlice(tr, cap) ELSE tr

\* the truth of a str or None argument: None and "" are false
Truthy(x) == x # None /\ x # ""

\* [t for t in result if t["operation"] == operation]
Matching(tr, operation) == SelectSeq(tr, LAMBDA t : t.operation = operation)

\* get_traces(operation, limit)
GetTraces(tr, operation, limit) ==
    LET result == IF Truthy(operation) THEN Matching(tr, operation) ELSE tr
    IN  LastSlice(result, limit)

RECURSIVE Gcd(_, _)
Gcd(a, b) == IF b = 0 THEN a ELSE Gcd(b, a % b)

\* a / b of two numbers, b > 0
Quotient(a, b) == LET g == Gcd(a, b) IN <<a \div g, b \div g>>

\* stats[op], a defaultdict entry: made on first use
Entry(stats, op) ==
    IF op \in DOMAIN stats THEN stats[op]
    ELSE [count |-> 0, total_duration |-> 0, errors |-> 0]

\* Counted, with the durations of failed calls left out of the total
CountedSuccessOnly(stats, trace) ==
    LET op == trace.operation
        e  == IF op \in DOMAIN stats THEN stats[op]
              ELSE [count |-> 0, total_duration |-> 0, errors |-> 0]
        e2 == [ count          |-> e.count + 1,
                total_duration |-> IF trace.status = "error" THEN e.total_duration
                                   ELSE e.total_duration + trace.duration_ms,
                errors         |-> IF trace.status = "error" THEN e.errors + 1 ELSE e.errors ]
    IN  [o \in DOMAIN stats \cup {op} |-> IF o = op THEN e2 ELSE stats[o]]

\* the body of `for trace in self.traces` for one trace
Counted(stats, trace) ==
    LET op == trace.operation
        e  == Entry(stats, op)
        e2 == [ count          |-> e.count + 1,
                total_duration |-> e.total_duration + trace.duration_ms,
                errors         |-> IF trace.status = "error" THEN e.errors + 1 ELSE e.errors ]
    IN  [o \in DOMAIN stats \cup {op} |-> IF o = op THEN e2 ELSE stats[o]]

\* for trace in self.traces: ..., from trace i on
RECURSIVE CountLoop(_, _, _)
CountLoop(tr, i, stats) ==
    IF i > Len(tr) THEN stats ELSE CountLoop(tr, i + 1, Counted(stats, tr[i]))

\* Averaged, with the total replaced by the average
AveragedInPlace(stats) ==
    [ op \in DOMAIN stats |->
        [ count        |-> stats[op].count,
          errors       |-> stats[op].errors,
          avg_duration |-> stats[op].total_duration ] ]

\* for op in stats: if count > 0: stats[op]["avg_duration"] = total / count
Averaged(stats) ==
    [ op \in DOMAIN stats |->
        IF stats[op].count > 0
        THEN [ count          |-> stats[op].count,
               total_duration |-> stats[op].total_duration,
               errors         |-> stats[op].errors,
               avg_duration   |-> Quotient(stats[op].total_duration, stats[op].count) ]
        ELSE stats[op] ]

\* get_stats()
GetStats(tr) == IF tr = <<>> THEN <<>> ELSE Averaged(CountLoop(tr, 1, <<>>))

\* json.dump of one value: None is written as null
Json(v) == IF v = None THEN "null" ELSE v

\* json.dump(self.traces): a list of objects with the keys of the dicts
JsonTrace(t) ==
    [ timestamp   |-> t.timestamp,
      operation   |-> t.operation,
      input       |-> t.input,
      output      |-> t.output,
      duration_ms |-> t.duration_ms,
      status      |-> t.status,
      error       |-> Json(t.error) ]

\* JsonDump, writing the most recent record only
JsonDumpLatest(tr) == [i \in 1 .. Min(Len(tr), 1) |-> JsonTrace(tr[Len(tr)])]

JsonDump(tr) == [i \in 1 .. Len(tr) |-> JsonTrace(tr[i])]

----------------------------------------------------------------------------
(* trace_operation: what the wrapper computes *)

\* InputData, with the args stored whole
InputDataArgsWhole(argstr, kwargstr) ==
    [args |-> argstr, kwargs |-> StrCut(kwargstr, InputCut)]

\* input_data = {"args": str(args)[:200], "kwargs": str(kwargs)[:200]}
InputData(argstr, kwargstr) ==
    [args |-> StrCut(argstr, InputCut), kwargs |-> StrCut(kwargstr, InputCut)]

\* output_data = {"result": str(result)[:500] if result else None}
OutputData(v) ==
    [result |-> IF v.truth = "true" THEN StrCut(v.str, ResultCut) ELSE None]

\* {} of the except branch
EmptyDict == <<>>

\* duration_ms = (time.time() - start) * 1000
Duration(now, start) == (now - start) * 1000

\* SuccessCall, with an empty string passed as the error
SuccessCallEmptyError(f, now, v) ==
    [ f EXCEPT !.args = [ operation   |-> f.name,
                          input_data  |-> f.input,
                          output_data |-> OutputData(v),
                          duration_ms |-> Duration(now, f.start),
                          status      |-> "success",
                          error       |-> "" ],
               !.after = Returned(v.id) ]

\* the add_trace call of the try branch, and what follows it: return result
SuccessCall(f, now, v) ==
    [ f EXCEPT !.args = [ operation   |-> f.name,
                          input_data  |-> f.input,
                          output_data |-> OutputData(v),
                          duration_ms |-> Duration(now, f.start),
                          status      |-> "success",
                          error       |-> None ],
               !.after = Returned(v.id) ]

\* ErrorCall, recording the exception's type in place of its message
ErrorCallTypeName(f, now, e) ==
    [ f EXCEPT !.args = [ operation   |-> f.name,
                          input_data  |-> f.input,
                          output_data |-> <<>>,
                          duration_ms |-> (now - f.start) * 1000,
                          status      |-> "error",
                          error       |-> e.type ],
               !.after = Raises(e) ]

\* the add_trace call of the except branch, and what follows it: raise
ErrorCall(f, now, e) ==
    [ f EXCEPT !.args = [ operation   |-> f.name,
                          input_data  |-> f.input,
                          output_data |-> EmptyDict,
                          duration_ms |-> Duration(now, f.start),
                          status      |-> "error",
                          error       |-> e.msg ],
               !.after = Raises(e) ]

----------------------------------------------------------------------------
(* The state after construction: tracer = InMemoryTracer(max_traces) *)

Init ==
    /\ traces = <<>>
    /\ max_traces \in Capacities
    /\ lock = Free
    /\ clock = 0
    /\ file = NoFile
    /\ pc = [t \in Threads |-> "idle"]
    /\ frame = [t \in Threads |-> NoFrame]
    /\ ret = [t \in Threads |-> NoRet]
    /\ hist = <<>>
    /\ calls = 0

\* the state of the server after import: tracer = InMemoryTracer()
InitServer ==
    /\ traces = <<>>
    /\ max_traces = DefaultMaxTraces
    /\ lock = Free
    /\ clock = 0
    /\ file = NoFile
    /\ pc = [t \in Threads |-> "idle"]
    /\ frame = [t \in Threads |-> NoFrame]
    /\ ret = [t \in Threads |-> NoRet]
    /\ hist = <<>>
    /\ calls = 0

\* the arguments of a direct add_trace call
ApiArgs ==
    [ operation   : OpNames,
      input_data  : {EmptyDict},
      output_data : {EmptyDict},
      duration_ms : {1000, 3000},
      status      : {"success", "error"},
      error       : {None} ]

Goto(t, where) == pc' = [pc EXCEPT ![t] = where]
Begin(t, where, f) ==
    /\ pc[t] = "idle"
    /\ pc' = [pc EXCEPT ![t] = where]
    /\ frame' = [frame EXCEPT ![t] = f]
    /\ ret' = [ret EXCEPT ![t] = NoRet]

\* time passes
Tick ==
    /\ clock < MaxClock
    /\ clock' = clock + 1
    /\ UNCHANGED <<traces, max_traces, lock, file, pc, frame, ret, hist, calls>>

\* a thread calls tracer.add_trace(...)
CallAddTrace(t, arguments, budget) ==
    /\ calls < budget
    /\ \E a \in arguments : Begin(t, "add_wait", [method |-> "add_trace", args |-> a, added |-> <<>>])
    /\ calls' = calls + 1
    /\ UNCHANGED <<traces, max_traces, lock, clock, file, hist>>

\* a thread calls tracer.get_traces(operation, limit); alias tells whether
\* the list the call returns is the very list object self.traces is bound to
CallGetTraces(t, operations, limits) ==
    /\ \E o \in operations, l \in limits :
          Begin(t, "get_wait", [method |-> "get_traces", operation |-> o, limit |-> l,
                               alias |-> FALSE])
    /\ UNCHANGED <<traces, max_traces, lock, clock, file, hist, calls>>

\* a thread calls tracer.get_stats()
CallGetStats(t) ==
    /\ Begin(t, "stats_wait", [method |-> "get_stats"])
    /\ UNCHANGED <<traces, max_traces, lock, clock, file, hist, calls>>

\* a thread calls export_traces_api(filepath), which calls
\* tracer.export_json(filepath); old (history) is the file as open() finds
\* it, kept where the properties of a specification look at it
CallExport(t, paths) ==
    /\ \E p \in paths :
          Begin(t, "export_wait", [method |-> "export_json", filepath |-> p, old |-> NoFile])
    /\ UNCHANGED <<traces, max_traces, lock, clock, file, hist, calls>>

\* a thread calls tracer.clear()
CallClear(t) ==
    /\ Begin(t, "clear_wait", [method |-> "clear"])
    /\ UNCHANGED <<traces, max_traces, lock, clock, file, hist, calls>>

Waiting == {"add_wait", "get_wait", "stats_wait", "export_wait", "clear_wait"}
Locked(w) ==
    CASE w = "add_wait"    -> "add_locked"
      [] w = "get_wait"    -> "get_locked"
      [] w = "stats_wait"  -> "stats_locked"
      [] w = "export_wait" -> "export_locked"
      [] w = "clear_wait"  -> "clear_locked"

\* an acquire that does not wait
CanAcquireAlways(t) == TRUE

\* threading.Lock.acquire(): it is taken only when free
CanAcquire(t) == lock = Free

\* with self.lock: entry
Acquire(t) ==
    /\ pc[t] \in Waiting
    /\ CanAcquire(t)
    /\ lock' = t
    /\ Goto(t, Locked(pc[t]))
    /\ UNCHANGED <<traces, max_traces, clock, file, frame, ret, hist, calls>>

\* Release, with the lock kept when the body raised
ReleaseUnlessRaised(t) ==
    /\ pc[t] = "exit"
    /\ lock' = IF ret[t].kind = "raise" THEN lock ELSE Free
    /\ Goto(t, CASE frame[t].method = "wrapper"     -> "wrapper_after"
                  [] frame[t].method = "export_json" -> "export_after"
                  [] OTHER                           -> "done")
    /\ UNCHANGED <<traces, max_traces, clock, file, frame, ret, hist, calls>>

\* with self.lock: exit, on return and on exception alike
Release(t) ==
    /\ pc[t] = "exit"
    /\ lock' = Free
    /\ Goto(t, CASE frame[t].method = "wrapper"     -> "wrapper_after"
                  [] frame[t].method = "export_json" -> "export_after"
                  [] OTHER                           -> "done")
    /\ UNCHANGED <<traces, max_traces, clock, file, frame, ret, hist, calls>>

\* the caller takes the result; the thread is free for its next call
Resume(t) ==
    /\ pc[t] \in {"done", "responded"}
    /\ Goto(t, "idle")
    /\ frame' = [frame EXCEPT ![t] = NoFrame]
    /\ ret' = [ret EXCEPT ![t] = NoRet]
    /\ UNCHANGED <<traces, max_traces, lock, clock, file, hist, calls>>

----------------------------------------------------------------------------
(* InMemoryTracer: the bodies of the methods, run with the lock held *)

\* the threads whose caller holds, as the result of get_traces, the list
\* object self.traces is bound to
Aliases == {u \in Threads : frame[u].method = "get_traces" /\ frame[u].alias}

\* self.traces.append(trace) changes the list object in place: whoever
\* holds that object sees the new record
Grown(trace) ==
    [u \in Threads |->
        IF u \in Aliases /\ ret[u].kind = "value"
        THEN Returned(Append(ret[u].value, trace)) ELSE ret[u]]

\* self.traces = ... binds the name to another object: the lists handed out
\* before are no longer the store's
Unbound ==
    [u \in Threads |->
        IF u \in Aliases THEN [frame[u] EXCEPT !.alias = FALSE] ELSE frame[u]]

\* AddAppend, with the timestamp read by the caller when its call began
AddAppendCallerStamp(t) ==
    /\ pc[t] = "add_locked"
    /\ LET a == frame[t].args
           trace == Trace(frame[t].start, a.operation, a.input_data, a.output_data,
                          a.duration_ms, a.status, a.error)
       IN  /\ traces' = Append(traces, trace)
           /\ hist' = Append(hist, trace)
           /\ frame' = [frame EXCEPT ![t].added = Append(@, trace)]
           /\ ret' = Grown(trace)
    /\ Goto(t, "add_trim")
    /\ UNCHANGED <<max_traces, lock, clock, file, calls>>

\* AddAppend, with the new record put in front of the stored ones
AddPrepend(t) ==
    /\ pc[t] = "add_locked"
    /\ LET a == frame[t].args
           trace == Trace(clock, a.operation, a.input_data, a.output_data,
                          a.duration_ms, a.status, a.error)
       IN  /\ traces' = <<trace>> \o traces
           /\ hist' = Append(hist, trace)
           /\ frame' = [frame EXCEPT ![t].added = Append(@, trace)]
           /\ ret' = Grown(trace)
    /\ Goto(t, "add_trim")
    /\ UNCHANGED <<max_traces, lock, clock, file, calls>>

\* add_trace: trace = {...}; self.traces.append(trace)
AddAppend(t) ==
    /\ pc[t] = "add_locked"
    /\ LET a == frame[t].args
           trace == Trace(clock, a.operation, a.input_data, a.output_data,
                          a.duration_ms, a.status, a.error)
       IN  /\ traces' = Append(traces, trace)
           /\ hist' = Append(hist, trace)
           /\ frame' = [frame EXCEPT ![t].added = Append(@, trace)]
           /\ ret' = Grown(trace)
    /\ Goto(t, "add_trim")
    /\ UNCHANGED <<max_traces, lock, clock, file, calls>>

\* add_trace: keep memory bounded; the assignment binds self.traces to a
\* new list
AddTrim(t) ==
    /\ pc[t] = "add_trim"
    /\ Goto(t, "exit")
    /\ traces' = Trimmed(traces, max_traces)
    /\ frame' = IF Len(traces) > max_traces THEN Unbound ELSE frame
    /\ UNCHANGED <<max_traces, lock, clock, file, ret, hist, calls>>

\* GetTracesBody, with the store's own list returned when it is no longer
\* than the limit and no filter is given
GetTracesBodyShared(t) ==
    /\ pc[t] = "get_locked"
    /\ ret' = [ret EXCEPT ![t] =
                 Returned(GetTraces(traces, frame[t].operation, frame[t].limit))]
    /\ frame' = [frame EXCEPT ![t].alias =
                    ~Truthy(frame[t].operation) /\ Len(traces) <= frame[t].limit]
    /\ Goto(t, "exit")
    /\ UNCHANGED <<traces, max_traces, lock, clock, file, hist, calls>>

\* GetTracesBody, with the returned records taken out of the store
GetTracesBodyConsuming(t) ==
    /\ pc[t] = "get_locked"
    /\ ret' = [ret EXCEPT ![t] =
                 Returned(GetTraces(traces, frame[t].operation, frame[t].limit))]
    /\ traces' = SubSeq(traces, 1,
                        Len(traces) - Len(GetTraces(traces, frame[t].operation, frame[t].limit)))
    /\ Goto(t, "exit")
    /\ UNCHANGED <<max_traces, lock, clock, file, frame, hist, calls>>

\* get_traces: the return value is computed before the lock is released;
\* result[-limit:] is a new list
GetTracesBody(t) ==
    /\ pc[t] = "get_locked"
    /\ ret' = [ret EXCEPT ![t] =
                 Returned(GetTraces(traces, frame[t].operation, frame[t].limit))]
    /\ Goto(t, "exit")
    /\ UNCHANGED <<traces, max_traces, lock, clock, file, frame, hist, calls>>

\* GetStatsBody, with statistics kept over every record appended since the
\* last clear instead of computed from the stored ones
GetStatsBodyCumulative(t) ==
    /\ pc[t] = "stats_locked"
    /\ ret' = [ret EXCEPT ![t] = Returned(GetStats(hist))]
    /\ Goto(t, "exit")
    /\ UNCHANGED <<traces, max_traces, lock, clock, file, frame, hist, calls>>

\* get_stats
GetStatsBody(t) ==
    /\ pc[t] = "stats_locked"
    /\ ret' = [ret EXCEPT ![t] = Returned(GetStats(traces))]
    /\ Goto(t, "exit")
    /\ UNCHANGED <<traces, max_traces, lock, clock, file, frame, hist, calls>>

\* export_json: open(filepath, 'w') truncates the file
ExportOpen(t, keep) ==
    /\ pc[t] = "export_locked"
    /\ Writable(frame[t].filepath)
    /\ file' = [state |-> "open", data |-> <<>>]
    /\ frame' = [frame EXCEPT ![t].old = IF keep THEN file ELSE NoFile]
    /\ Goto(t, "export_open")
    /\ UNCHANGED <<traces, max_traces, lock, clock, ret, hist, calls>>

\* export_json: open() raises, the destination cannot be written
ExportOpenFails(t, keep) ==
    /\ pc[t] = "export_locked"
    /\ ret' = [ret EXCEPT ![t] = Raises(IOError)]
    /\ frame' = [frame EXCEPT ![t].old = IF keep THEN file ELSE NoFile]
    /\ Goto(t, "exit")
    /\ UNCHANGED <<traces, max_traces, lock, clock, file, hist, calls>>

\* export_json: json.dump(self.traces, f, indent=2), and the file is closed;
\* export_json returns nothing that its caller uses
ExportWrite(t) ==
    /\ pc[t] = "export_open"
    /\ file' = [state |-> "closed", data |-> JsonDump(traces)]
    /\ Goto(t, "exit")
    /\ UNCHANGED <<traces, max_traces, lock, clock, frame, ret, hist, calls>>

\* export_json: a write raises after n of the records reached the file
ExportWriteFails(t) ==
    /\ pc[t] = "export_open"
    /\ \E n \in 0 .. Len(traces) :
          file' = [state |-> "cut", data |-> SubSeq(JsonDump(traces), 1, n)]
    /\ ret' = [ret EXCEPT ![t] = Raises(IOError)]
    /\ Goto(t, "exit")
    /\ UNCHANGED <<traces, max_traces, lock, clock, frame, hist, calls>>

\* Confirmation, with a status text that leaves the filepath out
ConfirmationNoPath(filepath) == [status |-> <<"Traces exported", "">>]

\* return {"status": "Traces exported to " + filepath}
Confirmation(filepath) == [status |-> <<"Traces exported to ", filepath>>]

\* export_traces_api: export_json has returned or raised
ExportApiEnd(t) ==
    /\ pc[t] = "export_after"
    /\ ret' = [ret EXCEPT ![t] =
                 IF ret[t].kind = "raise" THEN ret[t]
                 ELSE Returned(Confirmation(frame[t].filepath))]
    /\ Goto(t, "done")
    /\ UNCHANGED <<traces, max_traces, lock, clock, file, frame, hist, calls>>

\* clear: self.traces = [] binds self.traces to a new list
ClearBody(t) ==
    /\ pc[t] = "clear_locked"
    /\ Goto(t, "exit")
    /\ traces' = <<>>
    /\ hist' = <<>>
    /\ frame' = Unbound
    /\ UNCHANGED <<max_traces, lock, clock, file, ret, calls>>

----------------------------------------------------------------------------
(* trace_operation: a call of a wrapped function *)

\* WrapperCall, with a record appended as the call starts
WrapperCallRecordsStart(t, sites, budget) ==
    /\ calls < budget
    /\ \E c \in sites :
          LET trace == Trace(clock, c.name, InputData(c.args, KwargStr), EmptyDict,
                             0, "success", None)
          IN  /\ Begin(t, "running",
                       [method |-> "wrapper", name |-> c.name, start |-> clock,
                        input |-> InputData(c.args, KwargStr), outcome |-> NoRet,
                        args |-> None, after |-> NoRet, added |-> <<trace>>])
              /\ traces' = Append(traces, trace)
              /\ hist' = Append(hist, trace)
    /\ calls' = calls + 1
    /\ UNCHANGED <<max_traces, lock, clock, file>>

\* WrapperCall, with the wrapped function run inside `with tracer.lock`
WrapperCallLocked(t, sites, budget) ==
    /\ calls < budget
    /\ lock = Free
    /\ lock' = t
    /\ \E c \in sites :
          Begin(t, "running",
                [method |-> "wrapper", name |-> c.name, start |-> clock,
                 input |-> InputData(c.args, KwargStr), outcome |-> NoRet,
                 args |-> None, after |-> NoRet, added |-> <<>>])
    /\ calls' = calls + 1
    /\ UNCHANGED <<traces, max_traces, clock, file, hist>>

\* wrapper(*args, **kwargs): start = time.time(); input_data = {...}
WrapperCall(t, sites, budget) ==
    /\ calls < budget
    /\ \E c \in sites :
          Begin(t, "running",
                [method |-> "wrapper", name |-> c.name, start |-> clock,
                 input |-> InputData(c.args, KwargStr), outcome |-> NoRet,
                 args |-> None, after |-> NoRet, added |-> <<>>])
    /\ calls' = calls + 1
    /\ UNCHANGED <<traces, max_traces, lock, clock, file, hist>>

\* func returns v, `if result` is decided, and add_trace is called
FuncReturns(t, values) ==
    /\ pc[t] = "running"
    /\ \E v \in {x \in values : x.truth # "raises"} :
          frame' = [frame EXCEPT ![t] =
                      [SuccessCall(frame[t], clock, v) EXCEPT !.outcome = Returned(v.id)]]
    /\ Goto(t, "add_wait")
    /\ UNCHANGED <<traces, max_traces, lock, clock, file, ret, hist, calls>>

\* func returns v and bool(v) raises inside the try block: the except
\* branch takes it
FuncReturnsNoTruth(t, values) ==
    /\ pc[t] = "running"
    /\ \E v \in {x \in values : x.truth = "raises"} :
          frame' = [frame EXCEPT ![t] =
                      [ErrorCall(frame[t], clock, TruthError) EXCEPT !.outcome = Returned(v.id)]]
    /\ Goto(t, "add_wait")
    /\ UNCHANGED <<traces, max_traces, lock, clock, file, ret, hist, calls>>

\* FuncRaises, with an except branch that re-raises without recording
FuncRaisesUnrecorded(t, raised) ==
    /\ pc[t] = "running"
    /\ \E e \in {x \in raised : IsException(x)} :
          /\ ret' = [ret EXCEPT ![t] = Raises(e)]
          /\ frame' = [frame EXCEPT ![t].outcome = Raises(e), ![t].after = Raises(e)]
    /\ Goto(t, "done")
    /\ UNCHANGED <<traces, max_traces, lock, clock, file, hist, calls>>

\* func raises an Exception: the except branch calls add_trace
FuncRaises(t, raised) ==
    /\ pc[t] = "running"
    /\ \E e \in {x \in raised : IsException(x)} :
          frame' = [frame EXCEPT ![t] =
                      [ErrorCall(frame[t], clock, e) EXCEPT !.outcome = Raises(e)]]
    /\ Goto(t, "add_wait")
    /\ UNCHANGED <<traces, max_traces, lock, clock, file, ret, hist, calls>>

\* func raises what `except Exception` does not catch: it leaves the wrapper
FuncRaisesBase(t, raised) ==
    /\ pc[t] = "running"
    /\ \E e \in {x \in raised : ~IsException(x)} :
          /\ ret' = [ret EXCEPT ![t] = Raises(e)]
          /\ frame' = [frame EXCEPT ![t].outcome = Raises(e), ![t].after = Raises(e)]
    /\ Goto(t, "done")
    /\ UNCHANGED <<traces, max_traces, lock, clock, file, hist, calls>>

\* add_trace has returned: return result, or raise
WrapperEnd(t) ==
    /\ pc[t] = "wrapper_after"
    /\ ret' = [ret EXCEPT ![t] = frame[t].after]
    /\ Goto(t, "done")
    /\ UNCHANGED <<traces, max_traces, lock, clock, file, frame, hist, calls>>

----------------------------------------------------------------------------
(* The HTTP handlers /add and /query of api.py *)

\* Response, with the exception's message replaced by a fixed text
ResponseGeneric(name, r) ==
    IF r.kind = "raise"
    THEN IF IsException(r.exc) THEN Returned([error |-> "Internal Server Error"]) ELSE r
    ELSE IF name = "query_rag" THEN Returned([answer |-> r.value])
         ELSE r

\* add_doc: return add_document(text); query_doc: return {"answer":
\* query_rag(question)}; both: except Exception as e: return {"error": str(e)}
Response(name, r) ==
    IF r.kind = "raise"
    THEN IF IsException(r.exc) THEN Returned([error |-> r.exc.msg]) ELSE r
    ELSE IF name = "query_rag" THEN Returned([answer |-> r.value])
         ELSE r

\* the handler that called the wrapped function returns its response
HandlerEnd(t) ==
    /\ pc[t] = "done"
    /\ frame[t].method = "wrapper"
    /\ ret' = [ret EXCEPT ![t] = Response(frame[t].name, ret[t])]
    /\ Goto(t, "responded")
    /\ UNCHANGED <<traces, max_traces, lock, clock, file, frame, hist, calls>>

\* the dashboard's exportTraces(): fetch('/traces'), answered by
\* JSONResponse(get_traces_api(operation, limit)) with the default limit,
\* and the response made into the downloaded document
ExportTraces(t) ==
    /\ pc[t] = "done"
    /\ frame[t].method = "get_traces"
    /\ ret' = [ret EXCEPT ![t] = Returned(JsonDump(ret[t].value))]
    /\ Goto(t, "responded")
    /\ UNCHANGED <<traces, max_traces, lock, clock, file, frame, hist, calls>>

----------------------------------------------------------------------------

\* what every call goes through: the lock, and the return to the caller
Locking(t) == Acquire(t) \/ Release(t) \/ Resume(t)

\* the tracer used directly by one thread
Next ==
    \E t \in {"t1"} :
       \/ CallAddTrace(t, ApiArgs, MaxAdds)
       \/ CallGetTraces(t, Filters, Limits)
       \/ CallGetStats(t)
       \/ CallClear(t)
       \/ Locking(t)
       \/ AddAppend(t) \/ AddTrim(t)
       \/ GetTracesBody(t)
       \/ GetStatsBody(t)
       \/ ClearBody(t)

Spec == Init /\ [][Next]_vars

\* wrapped functions called by one thread
NextWrapper ==
    \/ Tick
    \/ \E t \in {"t1"} :
       \/ WrapperCall(t, CallSites, MaxWrapped)
       \/ FuncReturns(t, Values)
       \/ FuncReturnsNoTruth(t, Values)
       \/ FuncRaises(t, Raised)
       \/ FuncRaisesBase(t, Raised)
       \/ WrapperEnd(t)
       \/ CallGetTraces(t, {None}, {MaxLimit})
       \/ CallGetStats(t)
       \/ Locking(t)
       \/ AddAppend(t) \/ AddTrim(t)
       \/ GetTracesBody(t)
       \/ GetStatsBody(t)

SpecWrapper == Init /\ [][NextWrapper]_vars

\* the threads of the server: wrapped functions and the tracer's methods,
\* all within one tick of the clock
NextThreads ==
    \E t \in Threads :
       \/ WrapperCall(t, {c \in CallSites : c.name = "query_rag"}, MaxWrapped)
       \/ FuncReturns(t, {x \in Values : x.id = "dict"})
       \/ FuncRaises(t, Raised)
       \/ WrapperEnd(t)
       \/ CallGetTraces(t, {None}, {MaxLimit})
       \/ CallGetStats(t)
       \/ CallExport(t, {"traces.json"})
       \/ CallClear(t)
       \/ Locking(t)
       \/ AddAppend(t) \/ AddTrim(t)
       \/ GetTracesBody(t)
       \/ GetStatsBody(t)
       \/ ExportOpen(t, FALSE) \/ ExportOpenFails(t, FALSE)
       \/ ExportWrite(t) \/ ExportWriteFails(t)
       \/ ExportApiEnd(t)
       \/ ClearBody(t)

SpecThreads == Init /\ [][NextThreads]_vars

\* one thread that records calls, reads the store and exports it
NextExport ==
    \E t \in {"t1"} :
       \/ CallAddTrace(t, {a \in ApiArgs : a.duration_ms = 1000}, MaxAdds)
       \/ CallGetTraces(t, {None}, {MaxLimit})
       \/ CallGetStats(t)
       \/ CallExport(t, Paths)
       \/ Locking(t)
       \/ AddAppend(t) \/ AddTrim(t)
       \/ GetTracesBody(t)
       \/ GetStatsBody(t)
       \/ ExportOpen(t, TRUE) \/ ExportOpenFails(t, TRUE)
       \/ ExportWrite(t) \/ ExportWriteFails(t)
       \/ ExportApiEnd(t)

SpecExport == Init /\ [][NextExport]_vars

\* requests to /add and /query served by one thread
NextApi ==
    \E t \in {"t1"} :
       \/ WrapperCall(t, CallSites, MaxWrapped)
       \/ FuncReturns(t, Values)
       \/ FuncReturnsNoTruth(t, Values)
       \/ FuncRaises(t, Raised)
       \/ FuncRaisesBase(t, Raised)
       \/ WrapperEnd(t)
       \/ HandlerEnd(t)
       \/ Locking(t)
       \/ AddAppend(t) \/ AddTrim(t)

SpecApi == Init /\ [][NextApi]_vars

\* the server with its global tracer: requests to /query, and the
\* dashboard's Export button
NextDashboard ==
    \E t \in {"t1"} :
       \/ WrapperCall(t, {c \in CallSites : c.name = "query_rag"}, MaxRequests)
       \/ FuncReturns(t, {x \in Values : x.id = "text"})
       \/ WrapperEnd(t)
       \/ CallGetTraces(t, {None}, {DefaultLimit})
       \/ ExportTraces(t)
       \/ Locking(t)
       \/ AddAppend(t) \/ AddTrim(t)
       \/ GetTracesBody(t)

SpecDashboard == InitServer /\ [][NextDashboard]_vars

\* overlapping calls of wrapped functions while the clock runs
NextOverlap ==
    \/ Tick
    \/ \E t \in Threads :
       \/ WrapperCall(t, {c \in CallSites : c.name = "query_rag"}, MaxWrapped)
       \/ FuncReturns(t, {x \in Values : x.id = "dict"})
       \/ WrapperEnd(t)
       \/ CallClear(t)
       \/ Locking(t)
       \/ AddAppend(t) \/ AddTrim(t)
       \/ ClearBody(t)

SpecOverlap == Init /\ [][NextOverlap]_vars

\* what a thread does on its own once it is in a call of the tracer or has
\* come out of the wrapped function: nothing here waits for anything but
\* the lock
Proceed(t) ==
    \/ Locking(t)
    \/ AddAppend(t) \/ AddTrim(t)
    \/ GetTracesBody(t)
    \/ GetStatsBody(t)
    \/ ClearBody(t)
    \/ WrapperEnd(t)

\* calls of the tracer next to wrapped functions that return when they
\* return, if ever: a thread is sure to go on only inside Proceed
NextFair ==
    \E t \in Threads :
       \/ WrapperCall(t, {c \in CallSites : c.name = "query_rag"}, MaxWrapped)
       \/ FuncReturns(t, {x \in Values : x.id = "dict"})
       \/ CallGetTraces(t, {None}, {MaxLimit})
       \/ CallGetStats(t)
       \/ CallClear(t)
       \/ Proceed(t)

SpecFair ==
    Init /\ [][NextFair]_vars /\ \A t \in Threads : WF_vars(Proceed(t))

\* the steps of a call that need nothing but the processor: the in-memory
\* bodies, the release of the lock and the return to the caller
InMemory(t) ==
    \/ Release(t) \/ Resume(t)
    \/ AddAppend(t) \/ AddTrim(t)
    \/ GetTracesBody(t)
    \/ GetStatsBody(t)
    \/ ClearBody(t)
    \/ ExportApiEnd(t)

\* the external I/O of export_json: the operating system completes it when
\* it completes it
ExportIO(t) ==
    \/ ExportOpen(t, FALSE) \/ ExportOpenFails(t, FALSE)
    \/ ExportWrite(t) \/ ExportWriteFails(t)

\* the five methods called by the threads of the server under a fair
\* scheduler: a thread that can run does run, and a thread that finds the
\* lock free again and again gets it
NextLive ==
    \E t \in Threads :
       \/ CallAddTrace(t, {a \in ApiArgs : a.duration_ms = 1000 /\ a.status = "success"
                                          /\ a.operation = "query_rag"}, MaxAdds)
       \/ CallGetTraces(t, {None}, {MaxLimit})
       \/ CallGetStats(t)
       \/ CallExport(t, {"traces.json"})
       \/ CallClear(t)
       \/ Acquire(t)
       \/ InMemory(t)
       \/ ExportIO(t)

SpecLive ==
    /\ Init /\ [][NextLive]_vars
    /\ \A t \in Threads : WF_vars(InMemory(t)) /\ SF_vars(Acquire(t))

----------------------------------------------------------------------------
(* Properties of the store and of its queries, under Spec *)

\* the last k elements of s, 0 <= k <= Len(s)
Last(s, k) == SubSeq(s, Len(s) - k + 1, Len(s))

\* thread t has computed the return value of method m and still holds the lock
Computed(t, m) == pc[t] = "exit" /\ frame[t].method = m

\* the indices of the stored records of operation op
Of(op) == {i \in 1 .. Len(traces) : traces[i].operation = op}

RECURSIVE SumDurations(_)
SumDurations(I) ==
    IF I = {} THEN 0
    ELSE LET i == CHOOSE x \in I : TRUE
         IN  traces[i].duration_ms + SumDurations(I \ {i})

\* C1: whenever no add_trace is in its locked section, the number of stored
\* records is at most max_traces, for every max_traces the tracer is
\* constructed with.
C1_AtMostMaxTraces == lock = Free => Len(traces) <= max_traces

\* C2: after C + k add_trace calls on a fresh (or cleared) tracer of capacity
\* C, the store holds exactly the C most recently added records, in
\* insertion order.
C2_HoldsMostRecent ==
    (lock = Free /\ Len(hist) >= max_traces) => traces = Last(hist, max_traces)

\* C3: get_traces(limit=N) without an operation filter returns the last
\* min(N, count) stored records, oldest first, for every N >= 0.
C3_LastN ==
    \A t \in Threads :
       (Computed(t, "get_traces") /\ frame[t].operation = None)
          => ret[t] = Returned(Last(traces, Min(frame[t].limit, Len(traces))))

\* C4: get_traces(operation=f, limit=L) with a filter f supplied returns the
\* last min(L, m) of the m stored records whose operation equals f, in
\* insertion order, and nothing else.
C4_FilteredLastL ==
    \A t \in Threads :
       (Computed(t, "get_traces") /\ frame[t].operation # None)
          => LET m == SelectSeq(traces, LAMBDA r : r.operation = frame[t].operation)
             IN  ret[t] = Returned(Last(m, Min(frame[t].limit, Len(m))))

\* C5: for every operation with n stored records, e of them with status
\* error, get_stats reports count n and errors e, and an average equal to
\* the sum of the n durations divided by n.
C5_StatsPerOperation ==
    \A t \in Threads :
       Computed(t, "get_stats") =>
          \A op \in OpNames :
             Of(op) # {} =>
                /\ op \in DOMAIN ret[t].value
                /\ LET st == ret[t].value[op]
                       n  == Cardinality(Of(op))
                   IN  /\ st.count = n
                       /\ st.errors = Cardinality({i \in Of(op) : traces[i].status = "error"})
                       /\ st.avg_duration[2] > 0
                       /\ st.avg_duration[1] * n = SumDurations(Of(op)) * st.avg_duration[2]

\* C5 witness: statistics computed over an operation with a failed and a
\* successful call of different durations.
C5_Witness ==
    \E t \in Threads :
       /\ Computed(t, "get_stats")
       /\ \E op \in OpNames :
             /\ Cardinality(Of(op)) = 2
             /\ \E i, j \in Of(op) :
                   /\ traces[i].status = "error" /\ traces[j].status = "success"
                   /\ traces[i].duration_ms # traces[j].duration_ms

\* C6 as stated: each per-operation aggregate has exactly the fields count,
\* avg_duration_ms and errors.
C6_FieldsAsStated ==
    \A t \in Threads :
       Computed(t, "get_stats") =>
          \A op \in DOMAIN ret[t].value :
             DOMAIN ret[t].value[op] = {"count", "avg_duration_ms", "errors"}

\* C6 amended: each per-operation aggregate has exactly the fields count,
\* total_duration, errors and avg_duration.
C6_Fields ==
    \A t \in Threads :
       Computed(t, "get_stats") =>
          \A op \in DOMAIN ret[t].value :
             DOMAIN ret[t].value[op] = {"count", "total_duration", "errors", "avg_duration"}

\* C6 witness: statistics computed for a store with records of two operations.
C6_Witness ==
    \E t \in Threads :
       /\ Computed(t, "get_stats")
       /\ DOMAIN ret[t].value = OpNames

----------------------------------------------------------------------------
(* Properties of the wrapper, under SpecWrapper *)

\* the call of a wrapped function by thread t has come back to its caller
Finished(t) == pc[t] = "done" /\ frame[t].method = "wrapper"

\* the call has appended exactly one record, of status st
OneRecord(t, st) == Len(frame[t].added) = 1 /\ frame[t].added[1].status = st

\* C7 as stated: when the wrapped function raises, the wrapper raises the same
\* exception and the call has appended exactly one record, of status error
\* and with the exception's message.
C7_RaiseRecordedAsStated ==
    \A t \in Threads :
       (Finished(t) /\ frame[t].outcome.kind = "raise") =>
          /\ ret[t] = Raises(frame[t].outcome.exc)
          /\ OneRecord(t, "error")
          /\ frame[t].added[1].error = frame[t].outcome.exc.msg

\* C7 amended: when the wrapped function raises an exception that is an
\* instance of Exception, the wrapper raises the same exception and the call
\* has appended exactly one record, of status error and with the
\* exception's message.
C7_RaiseRecorded ==
    \A t \in Threads :
       (Finished(t) /\ frame[t].outcome.kind = "raise"
                    /\ IsException(frame[t].outcome.exc)) =>
          /\ ret[t] = Raises(frame[t].outcome.exc)
          /\ OneRecord(t, "error")
          /\ frame[t].added[1].error = frame[t].outcome.exc.msg

\* C7 witness: a call whose function raised TypeError has come back.
C7_Witness ==
    \E t \in Threads :
       /\ Finished(t)
       /\ frame[t].outcome.kind = "raise"
       /\ frame[t].outcome.exc.type = "TypeError"
       /\ ret[t].kind = "raise"

\* C8: when the wrapped function returns, whatever the value, the wrapper
\* returns that value without raising and the call has appended exactly one
\* record, of status success.
C8_ReturnPassedThrough ==
    \A t \in Threads :
       (Finished(t) /\ frame[t].outcome.kind = "value") =>
          /\ ret[t] = Returned(frame[t].outcome.value)
          /\ OneRecord(t, "success")

\* equality of two Python values of any types, None and a str included
Same(x, y) == ToString(x) = ToString(y)

\* the value of Values that a call's function returned
ReturnedValue(t) == CHOOSE v \in Values : v.id = frame[t].outcome.value

\* C24: for every value the wrapped function returns, the success record of
\* the call holds as its output the string form of that value cut to 500
\* characters, for values that are false in a condition as for the others.
C24_OutputIsSnapshot ==
    \A t \in Threads :
       (Finished(t) /\ frame[t].outcome.kind = "value" /\ OneRecord(t, "success")) =>
          Same(frame[t].added[1].output, [result |-> StrCut(ReturnedValue(t).str, ResultCut)])

\* the str() of the arguments of the call site named n
SiteArgs(n) == (CHOOSE c \in CallSites : c.name = n).args

\* s is the first characters, at most k, of the string full
PrefixUpTo(s, full, k) == s.text = full.text /\ s.len <= full.len /\ s.len <= k

\* C25: in every record the wrapper has appended, the args and kwargs
\* snapshots are prefixes of at most 200 characters of the string forms of
\* the arguments, and the result snapshot, where there is one, a prefix of at
\* most 500 characters of the string form of a returned value.
C25_SnapshotsBounded ==
    \A i \in 1 .. Len(hist) :
       /\ PrefixUpTo(hist[i].input.args, SiteArgs(hist[i].operation), InputCut)
       /\ PrefixUpTo(hist[i].input.kwargs, KwargStr, InputCut)
       /\ ("result" \in DOMAIN hist[i].output /\ ~Same(hist[i].output.result, None)) =>
             \E v \in Values : PrefixUpTo(hist[i].output.result, v.str, ResultCut)

\* C25 witness: a record whose args snapshot and whose result snapshot were
\* both cut, to 200 and to 500 characters.
C25_Witness ==
    \E i \in 1 .. Len(hist) :
       /\ hist[i].input.args.len = InputCut
       /\ "result" \in DOMAIN hist[i].output
       /\ ~Same(hist[i].output.result, None)
       /\ hist[i].output.result.len = ResultCut

\* the exception the except branch of a call has caught: the one the
\* function raised, or the one raised after it returned
Caught(t) ==
    IF frame[t].outcome.kind = "raise" THEN frame[t].outcome.exc ELSE TruthError

\* C26: every record the wrapper has appended has status success or error;
\* its error is None exactly when the status is success; an error record has
\* no result snapshot in its output, and its error is the message of the
\* exception the call caught.
C26_StatusAndError ==
    /\ \A i \in 1 .. Len(hist) :
          /\ hist[i].status \in {"success", "error"}
          /\ hist[i].error = None <=> hist[i].status = "success"
          /\ hist[i].status = "error" => "result" \notin DOMAIN hist[i].output
    /\ \A t \in Threads :
          (frame[t].method = "wrapper" /\ Len(frame[t].added) = 1
              /\ frame[t].added[1].status = "error") =>
             frame[t].added[1].error = Caught(t).msg

\* C26 witness: a success record and an error record, the second of a call
\* whose function raised TypeError.
C26_Witness ==
    /\ Len(hist) = 2
    /\ hist[1].status = "success"
    /\ hist[2].status = "error"
    /\ \E t \in Threads :
          /\ Finished(t)
          /\ frame[t].added = <<hist[2]>>
          /\ frame[t].outcome.kind = "raise"

\* C9 as stated: every call of a wrapped function that has come back, by a
\* return or by any raise, has appended exactly one record.
C9_OneRecordAsStated ==
    \A t \in Threads : Finished(t) => Len(frame[t].added) = 1

\* C9 amended: every call of a wrapped function whose function returned, or
\* raised an instance of Exception, has appended exactly one record when it
\* comes back, and no call ever appends two.
C9_OneRecord ==
    \A t \in Threads :
       frame[t].method = "wrapper" =>
          /\ Len(frame[t].added) <= 1
          /\ (Finished(t) /\ (\/ frame[t].outcome.kind = "value"
                              \/ IsException(frame[t].outcome.exc)))
                => Len(frame[t].added) = 1

\* C9 witness: the second call has come back after its function returned.
C9_Witness ==
    \E t \in Threads :
       /\ Finished(t)
       /\ frame[t].outcome.kind = "value"
       /\ Len(frame[t].added) = 1
       /\ Len(hist) = 2

----------------------------------------------------------------------------
(* Properties of the lock, under SpecThreads *)

\* where a thread is between the entry and the exit of `with self.lock`
Inside ==
    {"add_locked", "add_trim", "get_locked", "stats_locked",
     "export_locked", "export_open", "clear_locked", "exit"}

\* C10: a thread is inside a method's locked section only as the holder of
\* the lock, at most one thread is inside at a time, and after n add_trace
\* calls with n <= max_traces and no clear the store holds the n records.
C10_Serialized ==
    /\ \A t \in Threads : pc[t] \in Inside => lock = t
    /\ Cardinality({t \in Threads : pc[t] \in Inside}) <= 1
    /\ (lock = Free /\ Len(hist) <= max_traces) => traces = hist

\* C10 witness: two threads have both come out of add_trace, and both
\* records are stored.
C10_Witness ==
    /\ \A t \in Threads : pc[t] = "wrapper_after"
    /\ lock = Free
    /\ Len(traces) = 2

\* where a thread is in an external I/O call: open() is about to run, or the
\* file is open and json.dump writes to it
InIO == {"export_locked", "export_open"}

\* C11: no thread holds the lock while it is in an external I/O call, so
\* that while one thread is in I/O the lock is free for whoever waits for it.
C11_NoLockAcrossIO ==
    \A t \in Threads : pc[t] \in InIO => lock # t

----------------------------------------------------------------------------
(* Properties of overlapping calls, under SpecFair and SpecOverlap *)

\* C12: a thread whose wrapped function is running does not hold the lock,
\* and if the wrapped function of one thread never returns, every call of
\* the tracer another thread waits to enter comes back to its caller.
C12_TargetRunsUnlocked ==
    /\ [](\A t \in Threads : pc[t] = "running" => lock # t)
    /\ \A t, u \in Threads :
          (t # u /\ <>[](pc[t] = "running")) => (pc[u] \in Waiting ~> pc[u] = "done")

\* C12 witness: while the wrapped function of one thread is running,
\* another thread has cleared the store that held a record and is about to
\* leave the lock.
C12_Witness ==
    \E t, u \in Threads :
       /\ pc[t] = "running"
       /\ Computed(u, "clear")
       /\ Len(hist) = 0 /\ calls = 2

\* C28: the timestamps of the stored records never decrease along the
\* store, whichever threads appended them, and the record a call has
\* appended is stamped no earlier than the moment its function came back.
C28_TimestampsInOrder ==
    /\ \A i, j \in 1 .. Len(traces) :
          i < j => traces[i].timestamp <= traces[j].timestamp
    /\ \A t \in Threads :
          (frame[t].method = "wrapper" /\ Len(frame[t].added) = 1) =>
             frame[t].added[1].timestamp * 1000
                >= frame[t].start * 1000 + frame[t].added[1].duration_ms

\* C28 witness: two threads have recorded a call each, a tick apart, and the
\* call recorded second had started first.
C28_Witness ==
    \E t, u \in Threads :
       /\ frame[t].method = "wrapper" /\ frame[u].method = "wrapper"
       /\ Len(frame[t].added) = 1 /\ Len(frame[u].added) = 1
       /\ traces = frame[u].added \o frame[t].added
       /\ traces[1].timestamp < traces[2].timestamp
       /\ frame[t].start <= frame[u].start
       /\ t # u

\* C23: as long as the wrapped function of a call has neither returned nor
\* raised, the call has appended no record and has given nothing to its
\* caller.
C23_NoRecordWhileRunning ==
    \A t \in Threads :
       (frame[t].method = "wrapper" /\ frame[t].outcome = NoRet) =>
          /\ pc[t] = "running"
          /\ frame[t].added = <<>>
          /\ ret[t] = NoRet

\* C23 witness: the wrapped function of one thread has been running for a
\* tick; the store holds the record of the other thread's call and no other.
C23_Witness ==
    \E t, u \in Threads :
       /\ pc[t] = "running"
       /\ clock > frame[t].start
       /\ Finished(u)
       /\ Len(frame[u].added) = 1
       /\ traces = frame[u].added

\* C13: a call's record enters the store while the call holds the lock, and
\* it enters behind every record already stored; the store is otherwise only
\* cut at the front or cleared. The records are therefore stored in the
\* order in which their add_trace calls acquired the lock, whatever the order
\* in which the wrapped functions started.
C13_StoreOrderIsLockOrder ==
    [][\A t \in Threads :
          /\ (pc[t] = "add_locked" /\ pc'[t] # pc[t]) =>
                /\ lock = t
                /\ Len(frame'[t].added) = 1
                /\ traces' = traces \o frame'[t].added
          /\ (pc[t] # "add_locked" /\ pc'[t] # pc[t]) =>
                \E k \in 0 .. Len(traces) : traces' = SliceFrom(traces, k)]_vars

\* C13 witness: of two calls the one that started first returned last (it took
\* a tick, the other none), and its record is stored behind the other's.
C13_Witness ==
    \E t, u \in Threads :
       /\ frame[t].method = "wrapper" /\ frame[u].method = "wrapper"
       /\ frame[t].start < frame[u].start
       /\ Len(frame[t].added) = 1 /\ Len(frame[u].added) = 1
       /\ frame[t].added[1].duration_ms > frame[u].added[1].duration_ms
       /\ traces = frame[u].added \o frame[t].added

----------------------------------------------------------------------------
(* Properties of the export, under SpecExport *)

\* reading a written document back: null is read as None
JsonLoad(data) ==
    [i \in 1 .. Len(data) |-> [data[i] EXCEPT !.error = IF @ = "null" THEN None ELSE @]]

\* thread t has written the file and still holds the lock
Exported(t) ==
    pc[t] = "exit" /\ frame[t].method = "export_json" /\ ret[t].kind # "raise"

\* C14: when export_json has written the file, the document read back is a
\* list of the same length, in the same order and with the same fields per
\* record as get_traces(limit = store size) gives at that moment, and that
\* is every stored record.
C14_ExportIsFullDump ==
    \A t \in Threads :
       Exported(t) =>
          LET read  == JsonLoad(file.data)
              query == GetTraces(traces, None, Len(traces))
          IN  /\ file.state = "closed"
              /\ query = traces
              /\ Len(read) = Len(query)
              /\ \A i \in 1 .. Len(read) :
                    /\ DOMAIN read[i] = DOMAIN query[i]
                    /\ read[i] = query[i]

\* C14 witness: a store of two different records has been exported.
C14_Witness ==
    \E t \in Threads :
       /\ Exported(t)
       /\ Len(traces) = 2
       /\ traces[1] # traces[2]
       /\ Len(file.data) = 2

\* export_traces_api has returned its confirmation to thread t's caller
Confirmed(t) ==
    pc[t] = "done" /\ frame[t].method = "export_json" /\ ret[t].kind = "value"

\* C15 as stated: the confirmation has the two fields status and path, and
\* path is the filepath that was written.
C15_StatusAndPathAsStated ==
    \A t \in Threads :
       Confirmed(t) =>
          /\ DOMAIN ret[t].value = {"status", "path"}
          /\ ret[t].value.path = frame[t].filepath

\* C15 amended: the confirmation has the single field status, whose text is
\* "Traces exported to " followed by the filepath that was written.
C15_StatusNamesPath ==
    \A t \in Threads :
       Confirmed(t) =>
          /\ DOMAIN ret[t].value = {"status"}
          /\ ret[t].value.status = <<"Traces exported to ", frame[t].filepath>>
          /\ file.state = "closed"

\* C15 witness: an export to the default path has been confirmed.
C15_Witness ==
    \E t \in Threads :
       /\ Confirmed(t)
       /\ frame[t].filepath = "traces.json"
       /\ Len(file.data) > 0

\* export_json has raised out of `with self.lock` in thread t
Failed(t) ==
    /\ pc[t] \in {"export_after", "done"}
    /\ frame[t].method = "export_json"
    /\ ret[t].kind = "raise"

\* C16: when export_json fails with an I/O error, the caller of export gets
\* that error, the lock is free again for the calls that follow, and no step
\* of the export has changed the stored records.
C16_ExportErrorPropagates ==
    /\ [](\A t \in Threads : Failed(t) => ret[t] = Raises(IOError) /\ lock = Free)
    /\ [][\A t \in Threads :
            (frame[t].method = "export_json" /\ pc'[t] # pc[t]) => traces' = traces]_vars

\* C16 witness: an export to the unwritable path has failed, with records
\* in the store.
C16_Witness ==
    \E t \in Threads :
       /\ Failed(t)
       /\ pc[t] = "done"
       /\ ~Writable(frame[t].filepath)
       /\ Len(traces) = 2

\* C17: after a failed export the file holds either a complete export of
\* the store or what it held before the export began.
C17_NoPartialFile ==
    \A t \in Threads :
       (Failed(t) /\ pc[t] = "done") =>
          \/ file = frame[t].old
          \/ file = [state |-> "closed", data |-> JsonDump(traces)]

----------------------------------------------------------------------------
(* Properties of the store over its lifetime *)

\* C18: since construction or the last clear the store has grown by one
\* record per add_trace up to max_traces and stayed there; clear leaves it
\* empty, and on the store clear has emptied get_traces returns an empty
\* list and get_stats an empty map.
C18_GrowsUntilCleared ==
    /\ lock = Free => Len(traces) = Min(Len(hist), max_traces)
    /\ \A t \in Threads :
          /\ Computed(t, "clear") => traces = <<>>
          /\ (Computed(t, "get_traces") /\ hist = <<>>) => ret[t] = Returned(<<>>)
          /\ (Computed(t, "get_stats") /\ hist = <<>>) => ret[t] = Returned(<<>>)

\* C29: once get_traces has returned a list to its caller, no step of any
\* thread (an add_trace with or without eviction, a clear) changes the
\* length or the contents of that list for as long as the caller holds it.
C29_ReturnedListIsSnapshot ==
    [][\A t \in Threads :
          (pc[t] = "done" /\ frame[t].method = "get_traces" /\ pc'[t] = "done")
             => ret'[t] = ret[t]]_vars

\* C29 witness: a caller holds the one record get_traces returned, and the
\* store has since taken a second record.
C29_Witness ==
    \E t \in Threads :
       /\ pc[t] = "done"
       /\ frame[t].method = "get_traces"
       /\ Len(ret[t].value) = 1
       /\ Len(traces) = 2
       /\ traces[1] = ret[t].value[1]

\* the methods that only read the store
Readers == {"get_traces", "get_stats", "export_json"}

\* thread t takes a step of a call of one of the methods ms
Steps(t, ms) ==
    pc'[t] # pc[t] /\ (frame[t].method \in ms \/ frame'[t].method \in ms)

\* C19: no step of a get_traces, get_stats or export_json call, from the
\* call to the return, changes the sequence of stored records.
C19_ReadersLeaveStore ==
    [][\A t \in Threads : Steps(t, Readers) => traces' = traces]_vars

\* C19 witness: get_traces has returned both records of the store, which
\* still holds them.
C19_Witness ==
    \E t \in Threads :
       /\ pc[t] = "done"
       /\ frame[t].method = "get_traces"
       /\ Len(traces) = 2
       /\ ret[t] = Returned(traces)

\* C20: across every step of add_trace, get_traces, get_stats and
\* export_json the stored records keep their fields and their relative
\* order: the store after the step is the store before it with records
\* dropped from the front, or with one record added at the end.
C20_RecordsStayPut ==
    [][(\A t \in Threads : ~Steps(t, {"clear"})) =>
          \/ \E k \in 0 .. Len(traces) : traces' = SubSeq(traces, k + 1, Len(traces))
          \/ /\ Len(traces') = Len(traces) + 1
             /\ SubSeq(traces', 1, Len(traces)) = traces]_vars

\* C20 witness: the third add_trace has evicted the oldest record; the other
\* two are stored as they were appended, in the same order, after an export.
C20_Witness ==
    \E t \in Threads :
       /\ Computed(t, "add_trace")
       /\ max_traces = 2
       /\ Len(hist) = 3
       /\ hist[1] # hist[2] /\ hist[2] # hist[3]
       /\ traces = <<hist[2], hist[3]>>
       /\ file.state = "closed"

----------------------------------------------------------------------------
(* Further properties of the queries, under Spec *)

\* the operation names among the stored records
StoredOps == {traces[i].operation : i \in 1 .. Len(traces)}

\* C21: get_stats returns a map whose keys are the operation names among the
\* records stored at that moment, each counted over the stored records only
\* (an empty map for an empty store), and get_traces returns a list, empty
\* when a filter names an operation no stored record has; neither raises.
C21_StatsOfCurrentStore ==
    \A t \in Threads :
       /\ Computed(t, "get_stats") =>
             /\ ret[t].kind = "value"
             /\ DOMAIN ret[t].value = StoredOps
             /\ \A op \in StoredOps : ret[t].value[op].count = Cardinality(Of(op))
             /\ traces = <<>> => ret[t].value = <<>>
       /\ Computed(t, "get_traces") =>
             /\ ret[t].kind = "value"
             /\ (frame[t].operation \in OpNames \ StoredOps) => ret[t].value = <<>>

\* C21 witness: statistics computed after an eviction: the evicted record
\* was the only one of its operation.
C21_Witness ==
    \E t \in Threads :
       /\ Computed(t, "get_stats")
       /\ Len(hist) > Len(traces)
       /\ traces # <<>>
       /\ hist[1].operation \notin StoredOps

----------------------------------------------------------------------------
(* Progress, under SpecLive *)

\* C22: every call of add_trace, get_traces, get_stats, export_json and
\* clear that has been started gets the lock, completes and comes back to
\* its caller, and a call that has come back holds no lock.
C22_EveryCallCompletes ==
    \A t \in Threads :
       /\ pc[t] \in Waiting ~> pc[t] = "done"
       /\ [](pc[t] = "done" => lock # t)

----------------------------------------------------------------------------
(* Properties of the HTTP handlers, under SpecApi *)

\* the handler run by thread t has returned its response
Responded(t) == pc[t] = "responded"

\* the failure of the call is in the store as the newest record, one error
\* record of the operation, and get_stats counts it
FailureVisible(t) ==
    /\ OneRecord(t, "error")
    /\ frame[t].added[1].operation = frame[t].name
    /\ traces # <<>>
    /\ traces[Len(traces)] = frame[t].added[1]
    /\ frame[t].name \in DOMAIN GetStats(traces)
    /\ GetStats(traces)[frame[t].name].errors
          = Cardinality({i \in Of(frame[t].name) : traces[i].status = "error"})
    /\ GetStats(traces)[frame[t].name].errors >= 1

\* C27 as stated: when the instrumented function raises inside the handler,
\* the response is {error: message} and the failure is in the tracer as
\* exactly one error record of the operation, counted by get_stats.
C27_FailureVisibleAsStated ==
    \A t \in Threads :
       (Responded(t) /\ frame[t].outcome.kind = "raise") =>
          /\ Same(ret[t], Returned([error |-> frame[t].outcome.exc.msg]))
          /\ FailureVisible(t)

\* C27 amended: when the instrumented function raises an instance of
\* Exception inside the handler, the response is {error: message} and the
\* failure is in the tracer as exactly one error record of the operation,
\* counted by get_stats.
C27_FailureVisible ==
    \A t \in Threads :
       (Responded(t) /\ frame[t].outcome.kind = "raise"
                     /\ IsException(frame[t].outcome.exc)) =>
          /\ Same(ret[t], Returned([error |-> frame[t].outcome.exc.msg]))
          /\ FailureVisible(t)

\* C27 witness: /query has answered with an error after /add succeeded.
C27_Witness ==
    \E t \in Threads :
       /\ Responded(t)
       /\ frame[t].name = "query_rag"
       /\ frame[t].outcome.kind = "raise"
       /\ ret[t].kind = "value"
       /\ Len(hist) = 2
       /\ hist[1].status = "success"

----------------------------------------------------------------------------
(* Properties of the dashboard, under SpecDashboard *)

\* the dashboard has the document of its Export action
Downloaded(t) == pc[t] = "responded" /\ frame[t].method = "get_traces"

\* C30: the document the dashboard's Export action produces holds every
\* record stored in the tracer, in store order, whatever the size of the
\* store.
C30_DashboardExportsAll ==
    \A t \in Threads :
       Downloaded(t) =>
          /\ Len(ret[t].value) = Len(traces)
          /\ JsonLoad(ret[t].value) = traces

====
